---- MODULE Spec2Model ----
(***************************************************************************)
(* Office365 impossible-travel detector: the login history store           *)
(* (app/services/database.py), the geolocation client                      *)
(* (app/services/geolocation.py) and the detector                          *)
(* (app/services/impossible_travel.py).                                    *)
(*                                                                         *)
(* Requests are asyncio coroutines: one request runs without interruption  *)
(* between two awaits, so one action of the model is the code between two  *)
(* awaits.  Every store operation opens its own SQLite connection; the     *)
(* first data-changing statement of a connection opens a transaction and   *)
(* takes the database write lock, which the commit releases.               *)
(*                                                                         *)
(* Units: a clock reading counts tenths of a minute, a distance counts     *)
(* kilometres.                                                             *)
(***************************************************************************)
EXTENDS Integers, Sequences, FiniteSets, TLC

VARIABLES
    db,          \* committed rows of table login_history
    seq,         \* committed AUTOINCREMENT counter of login_history.id
    lock,        \* the request whose connection holds the write lock, or NoProc
    txn,         \* uncommitted view of the connection that holds the write lock
    pc,          \* per request slot: the await it is suspended at
    op,          \* per request slot: the operation in progress
    arg,         \* per request slot: the arguments user, ip, timestamp
    current_location,  \* per request slot: analyze's local current_location
    last_login,  \* per request slot: analyze's local last_login
    count,       \* per request slot: the local count of add_login / purge_database
    ret,         \* per request slot: what the last finished call returned
    outcome,     \* per request slot: what the geolocation lookup ended in
    before,      \* per request slot: the committed store when the call began
    seen,        \* per request slot: <<rows>> the call's history read saw, <<>> before it
    appended,    \* history: every row add_login committed since the last purge
    calls,       \* history: number of calls started
    db_service,  \* the module global _db_service is set (not None)
    login_history,    \* the table login_history exists in the database file
    initialize_runs,   \* history: number of completed runs of initialize
    main_pc,     \* where main() of the integration script is
    stdin,       \* the text main() read from stdin
    request,     \* the GET request main() made to the API, or NoRequest
    response,    \* what urlopen gave back, or NoResponse
    queue,       \* the messages delivered to the Wazuh queue socket
    stdout,      \* what main() printed on stdout
    exit_code    \* the exit status of the script, or Running

\* the singleton and what its initialize creates
svc == <<db_service, login_history, initialize_runs>>

\* the state of one run of the Wazuh integration script
wazuh == <<main_pc, stdin, request, response, queue, stdout, exit_code>>

vars == <<db, seq, lock, txn, pc, op, arg, outcome, current_location,
          last_login, count, ret, before, seen, appended, calls, svc, wazuh>>

-----------------------------------------------------------------------------
(* Bounds and configuration *)

\* MAX_RECORDS_PER_USER (default 10), set small: the cap every call is given
MaxRecordsPerUser == 2

\* number of store API calls explored by concurrent callers; a single
\* caller makes one more
MaxStoreCalls == MaxRecordsPerUser + 1

Procs == {"r1", "r2"}
NoProc == "none"
Users == {"alice", "bob"}

None == [none |-> TRUE]

-----------------------------------------------------------------------------
(* Timestamp strings.  A timestamp text is a fixed-width date-time (its    *)
(* clock reading) followed by a suffix: "" (no zone), "Z", "+00:00" or     *)
(* "+01:00"; or it is a date without a time part; or it is no date at all  *)
(* ("not-a-date").                                                         *)

TsText(c, s) == [date |-> TRUE, clock |-> c, sfx |-> s]
NotADate == [date |-> FALSE, clock |-> 0, sfx |-> "not-a-date"]

\* "2025-12-10": the date alone, a proper prefix of every date-time text
DateOnly == [date |-> TRUE, clock |-> 0, sfx |-> "date-only"]

\* ASCII order of the suffixes: "" is a prefix of all, '+' (43) < 'Z' (90),
\* and "+00:00" < "+01:00" at their third character.
SfxRank(s) ==
    CASE s = "date-only" -> 0 - 1
      [] s = "" -> 0
      [] s = "+00:00" -> 1
      [] s = "+01:00" -> 2
      [] s = "Z" -> 3

\* SQLite's BINARY collation on the TEXT column timestamp: byte-wise
\* comparison of the texts.  'n' (110) is above every digit.
TextLess(a, b) ==
    IF a.date /\ b.date
    THEN \/ a.clock < b.clock
         \/ a.clock = b.clock /\ SfxRank(a.sfx) < SfxRank(b.sfx)
    ELSE a.date /\ ~b.date

TextLeq(a, b) == a = b \/ TextLess(a, b)

\* timestamp_str.replace("Z", "+00:00")
ReplaceZ(t) == IF t.date /\ t.sfx = "Z" THEN [t EXCEPT !.sfx = "+00:00"] ELSE t

OffsetOf(s) == IF s = "+01:00" THEN 600 ELSE 0

\* a parser that takes only texts with an offset
FromIsoFormatAwareOnly(t) ==
    IF ~t.date \/ t.sfx \in {"", "date-only"}
    THEN [ok |-> FALSE, aware |-> FALSE, t |-> 0]
    ELSE [ok |-> TRUE, aware |-> TRUE, t |-> t.clock - OffsetOf(t.sfx)]

\* datetime.fromisoformat: ValueError on a text that is no date; a naive
\* datetime for a text without offset (midnight for a date alone);
\* otherwise an aware datetime, whose instant is the clock reading minus
\* the offset.
FromIsoFormat(t) ==
    IF ~t.date THEN [ok |-> FALSE, aware |-> FALSE, t |-> 0]
    ELSE IF t.sfx \in {"", "date-only"}
    THEN [ok |-> TRUE, aware |-> FALSE, t |-> t.clock]
    ELSE [ok |-> TRUE, aware |-> TRUE, t |-> t.clock - OffsetOf(t.sfx)]

\* a parser that reads a text that is no date as a naive midnight
ParseTimestampLenient(t) ==
    IF ~t.date THEN [ok |-> TRUE, aware |-> FALSE, t |-> 0]
    ELSE FromIsoFormat(ReplaceZ(t))

\* datetime.fromisoformat(timestamp_str.replace("Z", "+00:00"))
ParseTimestamp(t) == FromIsoFormat(ReplaceZ(t))

-----------------------------------------------------------------------------
(* The history store *)

\* an INSERT that stores the timestamp as the parser reads it
RowNormalized(id, user, ip, loc, ts) ==
    [id |-> id, user |-> user, ip |-> ip, country |-> loc.country,
     city |-> loc.city, latitude |-> loc.latitude,
     longitude |-> loc.longitude, timestamp |-> ReplaceZ(ts)]

\* INSERT INTO login_history (user, ip, country, city, latitude, longitude,
\* timestamp) VALUES (...), the id assigned by AUTOINCREMENT
Row(id, user, ip, loc, ts) ==
    [id |-> id, user |-> user, ip |-> ip, country |-> loc.country,
     city |-> loc.city, latitude |-> loc.latitude,
     longitude |-> loc.longitude, timestamp |-> ts]

\* a selection without the WHERE user = ? clause
UserRowsOfAnyUser(rows, user) == rows

\* ... FROM login_history WHERE user = ?
UserRows(rows, user) == {r \in rows : r.user = user}

\* SELECT COUNT(*) FROM login_history WHERE user = ?
CountUser(rows, user) == Cardinality(UserRows(rows, user))

\* a count of the users instead of the rows
CountAllUsers(rows) == Cardinality({r.user : r \in rows})

\* SELECT COUNT(*) FROM login_history
CountAll(rows) == Cardinality(rows)

\* SELECT COUNT(DISTINCT user) FROM login_history
CountDistinctUsers(rows) == Cardinality({r.user : r \in rows})

\* SELECT id FROM login_history WHERE user = ? ORDER BY timestamp ASC LIMIT k:
\* the possible results.  SQL leaves the order of rows with equal sort keys
\* open, so every choice among equal texts is a possible result.
OldestIds(rows, user, k) ==
    {S \in SUBSET UserRows(rows, user) :
        /\ Cardinality(S) = IF k < CountUser(rows, user) THEN k
                            ELSE CountUser(rows, user)
        /\ \A s \in S : \A r \in UserRows(rows, user) \ S :
              TextLeq(s.timestamp, r.timestamp)}

\* SELECT ... WHERE user = ? ORDER BY timestamp DESC LIMIT 1: the possible
\* results (None for an empty result list).
GetLastLogin(rows, user) ==
    IF UserRows(rows, user) = {} THEN {None}
    ELSE {r \in UserRows(rows, user) :
            \A o \in UserRows(rows, user) : TextLeq(o.timestamp, r.timestamp)}

NoTxn == [rows |-> {}, seq |-> 0, ins |-> None]

-----------------------------------------------------------------------------
(* Initial state: an empty store (initialize creates the table only),      *)
(* every request slot idle.                                                *)

NoLocation == [country |-> "", city |-> "", latitude |-> 0, longitude |-> 0]
NoArg == [user |-> "", ip |-> "", timestamp |-> NotADate]
NoRet == [kind |-> "none"]
NoOutcome == [kind |-> "none", data |-> <<>>]

\* the integration script has not been started
NoRequest == <<>>
NoBody == [json |-> "none", object |-> <<>>]
NoResponse == [kind |-> "none", code |-> 0, body |-> NoBody]

MainNotStarted ==
    /\ main_pc = "start"
    /\ stdin = [kind |-> "unread", alert |-> <<>>]
    /\ request = NoRequest
    /\ response = NoResponse
    /\ queue = <<>>
    /\ stdout = <<>>
    /\ exit_code = <<>>

\* get_database_service has been called and its initialize has completed
ServiceReady ==
    /\ db_service = TRUE
    /\ login_history = TRUE
    /\ initialize_runs = 1

Init ==
    /\ ServiceReady
    /\ MainNotStarted
    /\ db = {}
    /\ seq = 0
    /\ lock = NoProc
    /\ txn = NoTxn
    /\ pc = [p \in Procs |-> "idle"]
    /\ op = [p \in Procs |-> "none"]
    /\ arg = [p \in Procs |-> NoArg]
    /\ current_location = [p \in Procs |-> NoLocation]
    /\ last_login = [p \in Procs |-> None]
    /\ count = [p \in Procs |-> 0]
    /\ ret = [p \in Procs |-> NoRet]
    /\ outcome = [p \in Procs |-> NoOutcome]
    /\ before = [p \in Procs |-> [rows |-> {}, seq |-> 0]]
    /\ seen = [p \in Procs |-> <<>>]
    /\ appended = {}
    /\ calls = 0

\* a request slot takes a new call: its locals are fresh
Begin(p, o, a, loc, first) ==
    /\ pc[p] = "idle"
    /\ pc' = [pc EXCEPT ![p] = first]
    /\ op' = [op EXCEPT ![p] = o]
    /\ arg' = [arg EXCEPT ![p] = a]
    /\ current_location' = [current_location EXCEPT ![p] = loc]
    /\ last_login' = [last_login EXCEPT ![p] = None]
    /\ count' = [count EXCEPT ![p] = 0]
    /\ ret' = [ret EXCEPT ![p] = NoRet]
    /\ outcome' = [outcome EXCEPT ![p] = NoOutcome]
    /\ before' = [before EXCEPT ![p] = [rows |-> db, seq |-> seq]]
    /\ seen' = [seen EXCEPT ![p] = <<>>]
    /\ calls' = calls + 1
    /\ UNCHANGED <<svc, wazuh, db, seq, lock, txn, appended>>

\* a call ends: the slot is idle again and holds what the call returned
Return(p, r) ==
    /\ pc' = [pc EXCEPT ![p] = "idle"]
    /\ ret' = [ret EXCEPT ![p] = r]

-----------------------------------------------------------------------------
(* DatabaseService.add_login *)

\* a direct call add_login(user, ip, country, city, latitude, longitude,
\* timestamp, max_records)
CallAddLogin(p, user, ip, loc, ts) ==
    Begin(p, "add_login", [user |-> user, ip |-> ip, timestamp |-> ts],
          loc, "insert")

\* a call that lets one record too many stay
MaxRecordsOffByOne(p) == MaxRecordsPerUser + 1

\* max_records the call was given
MaxRecords(p) == MaxRecordsPerUser

\* a connection whose statements do not wait for the write lock
WriteLockIgnored(p) == TRUE

\* the first data-changing statement of p's connection gets the write lock
\* when no other connection holds it
WriteLockFree(p) == lock = NoProc

\* INSERT INTO login_history ...: opens the transaction, takes the write
\* lock and adds the row, with the next id, to the connection's view
AddLoginInsert(p) ==
    /\ pc[p] = "insert"
    /\ login_history
    /\ WriteLockFree(p)
    /\ lock' = p
    /\ LET row == Row(seq + 1, arg[p].user, arg[p].ip, current_location[p],
                      arg[p].timestamp)
       IN txn' = [rows |-> db \cup {row}, seq |-> seq + 1, ins |-> row]
    /\ pc' = [pc EXCEPT ![p] = "count"]
    /\ UNCHANGED <<svc, wazuh, db, seq, op, arg, before, outcome, current_location, last_login, count,
                   ret, seen, appended, calls>>

\* the INSERT finds the write lock held for longer than the busy timeout:
\* sqlite3.OperationalError leaves add_login
AddLoginBusy(p) ==
    /\ pc[p] = "insert"
    /\ ~WriteLockFree(p)
    /\ Return(p, [kind |-> "raise", error |-> "database is locked"])
    /\ UNCHANGED <<svc, wazuh, db, seq, lock, txn, op, arg, before, outcome, current_location, last_login,
                   count, seen, appended, calls>>

\* SELECT COUNT(*) ... WHERE user = ? inside the transaction, and the test
\* count > max_records
AddLoginCount(p) ==
    /\ pc[p] = "count"
    /\ lock = p
    /\ count' = [count EXCEPT ![p] = CountUser(txn.rows, arg[p].user)]
    /\ pc' = [pc EXCEPT ![p] =
                IF count'[p] > MaxRecords(p) THEN "evict" ELSE "commit"]
    /\ UNCHANGED <<svc, wazuh, db, seq, lock, txn, op, arg, before, outcome, current_location, last_login,
                   ret, seen, appended, calls>>

\* records_to_delete = count - max_records; DELETE ... WHERE id IN (...)
AddLoginEvict(p) ==
    /\ pc[p] = "evict"
    /\ lock = p
    /\ \E S \in OldestIds(txn.rows, arg[p].user, count[p] - MaxRecords(p)) :
          txn' = [txn EXCEPT !.rows = txn.rows \ S]
    /\ pc' = [pc EXCEPT ![p] = "commit"]
    /\ UNCHANGED <<svc, wazuh, db, seq, lock, op, arg, before, outcome, current_location, last_login,
                   count, ret, seen, appended, calls>>

\* db.commit(): the connection's view becomes the committed store and the
\* write lock is released.  A direct call returns; analyze goes on to the
\* verdict.
AddLoginCommit(p) ==
    /\ pc[p] = "commit"
    /\ lock = p
    /\ db' = txn.rows
    /\ seq' = txn.seq
    /\ appended' = appended \cup {txn.ins}
    /\ lock' = NoProc
    /\ txn' = NoTxn
    /\ IF op[p] = "add_login"
       THEN Return(p, [kind |-> "add_login"])
       ELSE /\ pc' = [pc EXCEPT ![p] = "verdict"]
            /\ UNCHANGED ret
    /\ UNCHANGED <<svc, wazuh, op, arg, before, outcome, current_location, last_login, count, seen, calls>>

-----------------------------------------------------------------------------
(* DatabaseService.get_last_login, called directly *)

CallGetLastLogin(p, user) ==
    Begin(p, "get_last_login", [user |-> user, ip |-> "", timestamp |-> NotADate],
          NoLocation, "select_last")

\* get_recent_logins(user, limit=1) and logins[0] if logins else None: one
\* read of the committed store
GetLastLoginSelect(p) ==
    /\ pc[p] = "select_last"
    /\ op[p] = "get_last_login"
    /\ login_history
    /\ \E r \in GetLastLogin(db, arg[p].user) :
          Return(p, [kind |-> "get_last_login", value |-> r])
    /\ seen' = [seen EXCEPT ![p] = <<db>>]
    /\ UNCHANGED <<svc, wazuh, db, seq, lock, txn, op, arg, before, outcome, current_location, last_login,
                   count, appended, calls>>

-----------------------------------------------------------------------------
(* DatabaseService.purge_database *)

CallPurge(p) == Begin(p, "purge_database", NoArg, NoLocation, "purge_count")

\* SELECT COUNT(*) FROM login_history: a read of the committed store
PurgeCount(p) ==
    /\ pc[p] = "purge_count"
    /\ login_history
    /\ count' = [count EXCEPT ![p] = CountAll(db)]
    /\ pc' = [pc EXCEPT ![p] = "purge_delete"]
    /\ UNCHANGED <<svc, wazuh, db, seq, lock, txn, op, arg, before, outcome, current_location, last_login,
                   ret, seen, appended, calls>>

\* DELETE FROM login_history: opens the transaction, takes the write lock
PurgeDelete(p) ==
    /\ pc[p] = "purge_delete"
    /\ WriteLockFree(p)
    /\ lock' = p
    /\ txn' = [rows |-> {}, seq |-> seq, ins |-> None]
    /\ pc' = [pc EXCEPT ![p] = "purge_commit"]
    /\ UNCHANGED <<svc, wazuh, db, seq, op, arg, before, outcome, current_location, last_login, count,
                   ret, seen, appended, calls>>

\* the DELETE finds the write lock held for longer than the busy timeout
PurgeBusy(p) ==
    /\ pc[p] = "purge_delete"
    /\ ~WriteLockFree(p)
    /\ Return(p, [kind |-> "raise", error |-> "database is locked"])
    /\ UNCHANGED <<svc, wazuh, db, seq, lock, txn, op, arg, before, outcome, current_location, last_login,
                   count, seen, appended, calls>>

\* db.commit() and return count.  removed is the number of rows the DELETE
\* removed (its rowcount, which the code does not read): the committed
\* rows, which no other connection could change while p held the lock.
PurgeCommit(p) ==
    /\ pc[p] = "purge_commit"
    /\ lock = p
    /\ db' = txn.rows
    /\ appended' = {}
    /\ lock' = NoProc
    /\ txn' = NoTxn
    /\ Return(p, [kind |-> "purge_database", value |-> count[p],
                  removed |-> Cardinality(db)])
    /\ UNCHANGED <<svc, wazuh, seq, op, arg, before, outcome, current_location, last_login, count, seen,
                   calls>>

-----------------------------------------------------------------------------
(* DatabaseService.get_stats *)

CallGetStats(p) == Begin(p, "get_stats", NoArg, NoLocation, "stats_total")

\* SELECT COUNT(*) as total_records FROM login_history: a read of the
\* committed store
GetStatsTotal(p) ==
    /\ pc[p] = "stats_total"
    /\ login_history
    /\ count' = [count EXCEPT ![p] = CountAll(db)]
    /\ pc' = [pc EXCEPT ![p] = "stats_unique"]
    /\ UNCHANGED <<svc, wazuh, db, seq, lock, txn, op, arg, before, outcome, current_location, last_login,
                   ret, seen, appended, calls>>

\* SELECT COUNT(DISTINCT user) as unique_users FROM login_history, a second
\* read, and the return of both numbers
GetStatsUnique(p) ==
    /\ pc[p] = "stats_unique"
    /\ Return(p, [kind |-> "get_stats", total_records |-> count[p],
                  unique_users |-> CountDistinctUsers(db)])
    /\ UNCHANGED <<svc, wazuh, db, seq, lock, txn, op, arg, before, outcome, current_location, last_login,
                   count, seen, appended, calls>>

-----------------------------------------------------------------------------
(* get_database_service and DatabaseService.initialize, at process start   *)

\* the first statement of a store operation
FirstStatement(o) ==
    CASE o = "get_stats" -> "stats_total"
      [] o = "purge_database" -> "purge_count"

\* the routes /stats and /purge: db_service = await get_database_service(),
\* then the operation
CallRoute(p, o) == Begin(p, o, NoArg, NoLocation, "get_service")

\* if _db_service is None: _db_service = DatabaseService(db_path), and the
\* coroutine is suspended in initialize; otherwise the global is returned
\* at once and the operation begins
GetDatabaseService(p) ==
    /\ pc[p] = "get_service"
    /\ IF ~db_service
       THEN /\ db_service' = TRUE
            /\ pc' = [pc EXCEPT ![p] = "initialize"]
       ELSE /\ pc' = [pc EXCEPT ![p] = FirstStatement(op[p])]
            /\ UNCHANGED db_service
    /\ UNCHANGED <<wazuh, db, seq, lock, txn, op, arg, before, outcome, current_location,
                   last_login, count, ret, seen, appended, calls, login_history,
                   initialize_runs>>

\* initialize: CREATE TABLE IF NOT EXISTS login_history.  A CREATE statement
\* opens no transaction: the table is there for every connection at once.
InitializeCreateTable(p) ==
    /\ pc[p] = "initialize"
    /\ login_history' = TRUE
    /\ pc' = [pc EXCEPT ![p] = "initialize_commit"]
    /\ UNCHANGED <<wazuh, db, seq, lock, txn, op, arg, before, outcome, current_location,
                   last_login, count, ret, seen, appended, calls, db_service,
                   initialize_runs>>

\* initialize: CREATE INDEX IF NOT EXISTS, commit and return; then
\* get_database_service returns and the operation begins
InitializeCommit(p) ==
    /\ pc[p] = "initialize_commit"
    /\ initialize_runs' = initialize_runs + 1
    /\ pc' = [pc EXCEPT ![p] = FirstStatement(op[p])]
    /\ UNCHANGED <<wazuh, db, seq, lock, txn, op, arg, before, outcome, current_location,
                   last_login, count, ret, seen, appended, calls, db_service,
                   login_history>>

\* the first statement of a store operation on a database file without the
\* table: sqlite3.OperationalError
NoSuchTable(p) ==
    /\ pc[p] \in {"stats_total", "purge_count", "select_last", "insert"}
    /\ ~login_history
    /\ Return(p, [kind |-> "raise", error |-> "no such table: login_history"])
    /\ UNCHANGED <<wazuh, db, seq, lock, txn, op, arg, before, outcome, current_location,
                   last_login, count, seen, appended, calls, svc>>

\* a fresh process on a fresh database file
InitStartup ==
    /\ MainNotStarted
    /\ db_service = FALSE
    /\ login_history = FALSE
    /\ initialize_runs = 0
    /\ db = {}
    /\ seq = 0
    /\ lock = NoProc
    /\ txn = NoTxn
    /\ pc = [p \in Procs |-> "idle"]
    /\ op = [p \in Procs |-> "none"]
    /\ arg = [p \in Procs |-> NoArg]
    /\ current_location = [p \in Procs |-> NoLocation]
    /\ last_login = [p \in Procs |-> None]
    /\ count = [p \in Procs |-> 0]
    /\ ret = [p \in Procs |-> NoRet]
    /\ outcome = [p \in Procs |-> NoOutcome]
    /\ before = [p \in Procs |-> [rows |-> {}, seq |-> 0]]
    /\ seen = [p \in Procs |-> <<>>]
    /\ appended = {}
    /\ calls = 0

NextStartup ==
    \E p \in Procs :
       \/ (calls < MaxStoreCalls /\ \E o \in {"get_stats", "purge_database"} :
                                       CallRoute(p, o))
       \/ GetDatabaseService(p)
       \/ InitializeCreateTable(p)
       \/ InitializeCommit(p)
       \/ NoSuchTable(p)
       \/ GetStatsTotal(p)
       \/ GetStatsUnique(p)
       \/ PurgeCount(p)
       \/ PurgeDelete(p)
       \/ PurgeBusy(p)
       \/ PurgeCommit(p)

SpecStartup == InitStartup /\ [][NextStartup]_vars

-----------------------------------------------------------------------------
(* The store API driven directly by concurrent callers *)

StoreLocation ==
    [country |-> "MA", city |-> "Casablanca", latitude |-> 0, longitude |-> 0]

\* timestamps given to the store: two instants in Z form, the first of
\* them also with +00:00, and an earlier instant written as a +01:00
\* local time
StoreTimestamps ==
    {TsText(10, "Z"), TsText(20, "Z"), TsText(10, "+00:00"),
     TsText(600, "+01:00")}

\* fewer of them for concurrent callers
ConcurrentTimestamps == {TsText(10, "Z"), TsText(600, "+01:00")}

StoreCall(p, timestamps, max_calls) ==
    /\ calls < max_calls
    /\ \/ \E u \in Users, ts \in timestamps :
             CallAddLogin(p, u, "ip", StoreLocation, ts)
       \/ \E u \in Users : CallGetLastLogin(p, u)
       \/ CallPurge(p)
       \/ CallGetStats(p)

NextStore ==
    \E p \in Procs :
       \/ StoreCall(p, ConcurrentTimestamps, MaxStoreCalls)
       \/ AddLoginInsert(p)
       \/ AddLoginBusy(p)
       \/ AddLoginCount(p)
       \/ AddLoginEvict(p)
       \/ AddLoginCommit(p)
       \/ GetLastLoginSelect(p)
       \/ PurgeCount(p)
       \/ PurgeDelete(p)
       \/ PurgeBusy(p)
       \/ PurgeCommit(p)
       \/ GetStatsTotal(p)
       \/ GetStatsUnique(p)

SpecStore == Init /\ [][NextStore]_vars

\* the same calls made one after another by a single caller
NextStoreSeq ==
    \/ StoreCall("r1", StoreTimestamps, MaxStoreCalls + 1)
    \/ GetStatsTotal("r1")
    \/ GetStatsUnique("r1")
    \/ AddLoginInsert("r1")
    \/ AddLoginCount("r1")
    \/ AddLoginEvict("r1")
    \/ AddLoginCommit("r1")
    \/ GetLastLoginSelect("r1")
    \/ PurgeCount("r1")
    \/ PurgeDelete("r1")
    \/ PurgeCommit("r1")

SpecStoreSeq == Init /\ [][NextStoreSeq]_vars

\* a failure whose connection keeps what its statements had written
AddLoginFailAutocommit(p) ==
    /\ pc[p] \in {"count", "evict", "commit"}
    /\ lock = p
    /\ db' = txn.rows
    /\ seq' = txn.seq
    /\ lock' = NoProc
    /\ txn' = NoTxn
    /\ Return(p, [kind |-> "raise", error |-> "disk I/O error"])
    /\ UNCHANGED <<svc, wazuh, op, arg, before, outcome, current_location,
                   last_login, count, seen, appended, calls>>

\* a statement after the INSERT (the count, the DELETE or the commit) raises:
\* the exception leaves the `async with`, the connection is closed with its
\* transaction open, and SQLite rolls the transaction back and releases the
\* write lock
AddLoginFail(p) ==
    /\ pc[p] \in {"count", "evict", "commit"}
    /\ lock = p
    /\ lock' = NoProc
    /\ txn' = NoTxn
    /\ Return(p, [kind |-> "raise", error |-> "disk I/O error"])
    /\ UNCHANGED <<svc, wazuh, db, seq, op, arg, before, outcome, current_location,
                   last_login, count, seen, appended, calls>>

\* the single caller's calls, any add_login of which may fail before its
\* commit
NextStoreFaulty ==
    \/ NextStoreSeq
    \/ AddLoginFail("r1")

SpecStoreFaulty == Init /\ [][NextStoreFaulty]_vars

-----------------------------------------------------------------------------
(* Properties of the store: C2 under SpecStore, the others under          *)
(* SpecStoreSeq                                                            *)

Idle == \A p \in Procs : pc[p] = "idle"

\* the point in time a stored timestamp text denotes (the store is given
\* texts with an offset only)
Instant(ts) == ParseTimestamp(ts).t

\* C1: cap invariant.  After every add_login with max_records = N the
\* committed store holds at most N rows of every user.
C1_CapInvariant ==
    \A u \in Users : CountUser(db, u) <= MaxRecordsPerUser

\* an append has evicted: a user is at the cap and more rows than the cap
\* were appended for that user
C1_Witness ==
    /\ Idle
    /\ \E u \in Users :
          /\ CountUser(db, u) = MaxRecordsPerUser
          /\ CountUser(appended, u) > MaxRecordsPerUser

\* C2: insert, count and conditional delete of add_login are one atomic
\* unit.  An append that has counted, and not yet committed, holds a count
\* that is the committed number of the user's rows plus its own insert (no
\* other append or purge has committed since its insert), and no committed
\* store exceeds the cap.
C2_AppendAtomic ==
    /\ \A p \in Procs :
          pc[p] \in {"evict", "commit"} =>
             count[p] = CountUser(db, arg[p].user) + 1
    /\ \A u \in Users : CountUser(db, u) <= MaxRecordsPerUser

\* two appends for one user in flight: one has counted up to the cap and
\* not committed, the other is at its INSERT
C2_Witness ==
    \E p, q \in Procs :
       /\ p # q
       /\ pc[p] = "commit" /\ pc[q] = "insert"
       /\ arg[p].user = arg[q].user
       /\ count[p] = MaxRecordsPerUser

StrictlyIncreasing(rows) ==
    \A a, b \in rows : a.id < b.id => Instant(a.timestamp) < Instant(b.timestamp)

\* C3: eviction order.  After N+1 appends for one user with strictly
\* increasing event timestamps the store holds exactly the N latest of
\* them: all but the one with the earliest timestamp.
C3_EvictionOrder ==
    \A u \in Users :
       LET A == UserRows(appended, u) IN
       (Idle /\ Cardinality(A) = MaxRecordsPerUser + 1 /\ StrictlyIncreasing(A))
       => UserRows(db, u) =
             {r \in A : \E o \in A : Instant(o.timestamp) < Instant(r.timestamp)}

Min(a, b) == IF a < b THEN a ELSE b

\* C4: independence from insertion order.  Whatever the arrival order, the
\* stored rows of a user are the min(N, number appended) rows with the
\* greatest event timestamps among those appended since the last purge.
C4_MostRecentKept ==
    \A u \in Users :
       LET A == UserRows(appended, u)
           S == UserRows(db, u)
       IN Idle =>
            /\ S \subseteq A
            /\ Cardinality(S) = Min(MaxRecordsPerUser, Cardinality(A))
            /\ \A s \in S : \A a \in A \ S :
                  Instant(a.timestamp) <= Instant(s.timestamp)

\* C5: get_last_login returns None for a user without rows and otherwise
\* the user's row whose timestamp is the greatest point in time.
C5_LastLoginIsLatestInstant ==
    \A p \in Procs :
       ret[p].kind = "get_last_login" =>
          LET rows == UserRows(seen[p][1], arg[p].user) IN
          IF rows = {} THEN ret[p].value = None
          ELSE /\ ret[p].value \in rows
               /\ \A o \in rows :
                     Instant(o.timestamp) <= Instant(ret[p].value.timestamp)

\* C6: ties.  Among rows of one user with equal timestamps eviction removes
\* the earliest inserted first and get_last_login returns the latest
\* inserted.
C6_TiesByInsertion ==
    /\ \A u \in Users :
          \A s \in UserRows(db, u) : \A a \in UserRows(appended, u) \ db :
             a.timestamp = s.timestamp => a.id < s.id
    /\ \A p \in Procs :
          (ret[p].kind = "get_last_login" /\ ret[p].value # None) =>
             \A o \in UserRows(seen[p][1], arg[p].user) :
                o.timestamp = ret[p].value.timestamp => o.id <= ret[p].value.id

-----------------------------------------------------------------------------
(* GeolocationService.get_location *)

\* the answers of ip-api.com used here: places on the equator, longitude
\* counted in kilometres of arc, so that the geodesic distance of two of
\* them is the difference of their longitudes
Place(country, city, lon) ==
    [status |-> "success", country |-> country, city |-> city, lat |-> 0,
     lon |-> lon]

Ips ==
    {"ip_casablanca", "ip_tarifa", "ip_rabat", "ip_fes", "ip_marrakech",
     "ip_casablanca_east", "ip_private"}

\* addresses with an answer of another shape: a latitude beyond the pole,
\* and a success answer without the fields country and city
OddIps == {"ip_beyond_pole", "ip_no_place"}

IpApi ==
    [ip \in Ips \cup OddIps |->
        CASE ip = "ip_casablanca" -> Place("MA", "Casablanca", 0)
          [] ip = "ip_tarifa" -> Place("ES", "Tarifa", 50)
          [] ip = "ip_rabat" -> Place("MA", "Rabat", 99)
          [] ip = "ip_fes" -> Place("MA", "Fes", 100)
          [] ip = "ip_marrakech" -> Place("MA", "Marrakech", 150)
          [] ip = "ip_casablanca_east" -> Place("MA", "Casablanca", 150)
          [] ip = "ip_private" ->
               [status |-> "fail", message |-> "private range"]
          [] ip = "ip_beyond_pole" ->
               [status |-> "success", country |-> "NO", city |-> "Alta",
                lat |-> 120, lon |-> 0]
          [] ip = "ip_no_place" ->
               [status |-> "success", lat |-> 0, lon |-> 50]]

\* what client.get / raise_for_status / response.json() can end in
ResolverOutcomes(ip) ==
    {[kind |-> "json", data |-> IpApi[ip]],
     [kind |-> "timeout", data |-> <<>>],
     [kind |-> "http_error", data |-> <<>>],
     [kind |-> "error", data |-> <<>>]}

\* dict.get(key, default)
DictGet(d, k, default) == IF k \in DOMAIN d THEN d[k] ELSE default

\* a get_location that answers a failed lookup with the default location
GetLocationDefaulting(reply) ==
    IF reply.kind # "json" \/ DictGet(reply.data, "status", "") = "fail"
    THEN [country |-> "Unknown", city |-> "Unknown", latitude |-> 0,
          longitude |-> 0]
    ELSE [country |-> DictGet(reply.data, "country", "Unknown"),
          city |-> DictGet(reply.data, "city", "Unknown"),
          latitude |-> DictGet(reply.data, "lat", 0),
          longitude |-> DictGet(reply.data, "lon", 0)]

\* get_location: None on status "fail" and on every exception, otherwise
\* the LocationInfo built with the defaults "Unknown" / 0.0
GetLocation(reply) ==
    IF reply.kind # "json" THEN None
    ELSE IF DictGet(reply.data, "status", "") = "fail" THEN None
    ELSE [country |-> DictGet(reply.data, "country", "Unknown"),
          city |-> DictGet(reply.data, "city", "Unknown"),
          latitude |-> DictGet(reply.data, "lat", 0),
          longitude |-> DictGet(reply.data, "lon", 0)]

-----------------------------------------------------------------------------
(* ImpossibleTravelDetector *)

\* IMPOSSIBLE_TRAVEL_TIME_WINDOW, minutes
time_window_minutes == 5

\* MIN_DISTANCE_KM
min_distance_km == 100

Abs(x) == IF x < 0 THEN 0 - x ELSE x

\* geopy's Point takes a latitude in [-90, 90] and raises ValueError for
\* any other
ValidLatitude(lat) == 0 - 90 <= lat /\ lat <= 90

\* geodesic(previous_coords, current_coords).kilometers for two places on
\* the equator
Geodesic(lat1, lon1, lat2, lon2) == Abs(lon1 - lon2)

\* a time difference that keeps its sign
TimeDifferenceSigned(current_timestamp, previous_timestamp) ==
    current_timestamp.t - previous_timestamp.t

\* abs((current_timestamp - previous_timestamp).total_seconds() / 60), in
\* tenths of a minute
TimeDifference(current_timestamp, previous_timestamp) ==
    Abs(current_timestamp.t - previous_timestamp.t)

\* a window that excludes its bound
WithinTimeWindowStrict(time_diff) == time_diff < 10 * time_window_minutes

\* time_diff_minutes <= self.time_window_minutes, the difference counted
\* in tenths of a minute
WithinTimeWindow(time_diff) == time_diff <= 10 * time_window_minutes

\* last_login["country"] != current_location.country or
\* distance_km >= self.min_distance_km
DifferentLocation(prev_country, cur_country, distance_km) ==
    prev_country # cur_country \/ distance_km >= min_distance_km

\* a same-location test that also compares the coordinates
SameLocationAndCoordinates(last, cur) ==
    /\ last.country = cur.country /\ last.city = cur.city
    /\ last.latitude = cur.latitude /\ last.longitude = cur.longitude

\* last_login["country"] == current_location.country and
\* last_login["city"] == current_location.city
SameLocation(last, cur) ==
    last.country = cur.country /\ last.city = cur.city

\* a result whose missing metrics default to 0.0 instead of None
ResultZeroMetrics(p, detected, previous, distance, time_diff, message, cites) ==
    [kind |-> "analyze",
     user |-> arg[p].user,
     current_ip |-> arg[p].ip,
     current_location |-> current_location[p],
     current_timestamp |-> arg[p].timestamp,
     impossible_travel_detected |-> detected,
     previous_login |-> previous,
     distance_km |-> IF distance = <<>> THEN <<0>> ELSE distance,
     time_difference_minutes |-> IF time_diff = <<>> THEN <<0>> ELSE time_diff,
     message |-> message,
     message_cites |-> cites]

\* ImpossibleTravelResult(...): an Optional field left out is None, here <<>>
Result(p, detected, previous, distance, time_diff, message, cites) ==
    [kind |-> "analyze",
     user |-> arg[p].user,
     current_ip |-> arg[p].ip,
     current_location |-> current_location[p],
     current_timestamp |-> arg[p].timestamp,
     impossible_travel_detected |-> detected,
     previous_login |-> previous,
     distance_km |-> distance,
     time_difference_minutes |-> time_diff,
     message |-> message,
     message_cites |-> cites]

UnknownLocation ==
    [country |-> "Unknown", city |-> "Unknown", latitude |-> 0, longitude |-> 0]

CallAnalyze(p, user, ip, ts) ==
    Begin(p, "analyze", [user |-> user, ip |-> ip, timestamp |-> ts],
          NoLocation, "geolocate")

\* an analyze that tests the timestamp before the location
AnalyzeGeolocateParseFirst(p) ==
    /\ pc[p] = "geolocate"
    /\ \E o \in ResolverOutcomes(arg[p].ip) :
          /\ outcome' = [outcome EXCEPT ![p] = o]
          /\ IF ~ParseTimestamp(arg[p].timestamp).ok
             THEN /\ Return(p, [Result(p, FALSE, None, <<>>, <<>>,
                                  "Invalid timestamp format", <<>>)
                                EXCEPT !.current_location = UnknownLocation])
                  /\ UNCHANGED current_location
             ELSE IF GetLocation(o) = None
             THEN /\ Return(p, [Result(p, FALSE, None, <<>>, <<>>,
                                  "Failed to geolocate IP address", <<>>)
                                EXCEPT !.current_location = UnknownLocation])
                  /\ UNCHANGED current_location
             ELSE /\ current_location' =
                        [current_location EXCEPT ![p] = GetLocation(o)]
                  /\ pc' = [pc EXCEPT ![p] = "select_last"]
                  /\ UNCHANGED ret
    /\ UNCHANGED <<svc, wazuh, db, seq, lock, txn, op, arg, before, last_login, count, seen,
                   appended, calls>>

\* await geo_service.get_location(ip) returns; then the None test and the
\* parse of timestamp_str, up to the call of get_last_login
AnalyzeGeolocate(p) ==
    /\ pc[p] = "geolocate"
    /\ \E o \in ResolverOutcomes(arg[p].ip) :
          /\ outcome' = [outcome EXCEPT ![p] = o]
          /\ IF GetLocation(o) = None
             THEN /\ Return(p, [Result(p, FALSE, None, <<>>, <<>>,
                                  "Failed to geolocate IP address", <<>>)
                                EXCEPT !.current_location = UnknownLocation])
                  /\ UNCHANGED current_location
             ELSE /\ current_location' =
                        [current_location EXCEPT ![p] = GetLocation(o)]
                  /\ IF ~ParseTimestamp(arg[p].timestamp).ok
                     THEN Return(p, [Result(p, FALSE, None, <<>>, <<>>,
                                       "Invalid timestamp format", <<>>)
                                     EXCEPT !.current_location = GetLocation(o)])
                     ELSE /\ pc' = [pc EXCEPT ![p] = "select_last"]
                          /\ UNCHANGED ret
    /\ UNCHANGED <<svc, wazuh, db, seq, lock, txn, op, arg, before, last_login, count, seen,
                   appended, calls>>

\* last_login = await db_service.get_last_login(user): one read of the
\* committed store; then add_login is called
AnalyzeGetLastLogin(p) ==
    /\ pc[p] = "select_last"
    /\ op[p] = "analyze"
    /\ login_history
    /\ \E r \in GetLastLogin(db, arg[p].user) :
          last_login' = [last_login EXCEPT ![p] = r]
    /\ seen' = [seen EXCEPT ![p] = <<db>>]
    /\ pc' = [pc EXCEPT ![p] = "insert"]
    /\ UNCHANGED <<svc, wazuh, db, seq, lock, txn, op, arg, before, outcome, current_location, count, ret,
                   appended, calls>>

\* lines 97-194: the verdict, from last_login, current_location and the
\* two timestamps.  geodesic is called before the try block, so what it
\* raises leaves analyze; what the statements of the try block raise
\* becomes the "Error calculating travel metrics" result.
VerdictFor(p, last) ==
    LET cur == current_location[p]
        now == ParseTimestamp(arg[p].timestamp)
    IN
    IF last = None
    THEN Result(p, FALSE, None, <<>>, <<>>, "First login for this user", <<>>)
    ELSE IF SameLocation(last, cur)
    THEN Result(p, FALSE, last, <<>>, <<>>,
                "Login from same location as previous login", <<>>)
    ELSE IF ~(ValidLatitude(last.latitude) /\ ValidLatitude(cur.latitude))
    THEN [kind |-> "raise", error |-> "Latitude must be in the [-90; 90] range."]
    ELSE
    LET distance_km == Geodesic(last.latitude, last.longitude,
                                cur.latitude, cur.longitude)
        previous == ParseTimestamp(last.timestamp)
    IN
    IF ~previous.ok
    THEN Result(p, FALSE, last, <<>>, <<>>,
                "Error calculating travel metrics", <<"Invalid isoformat string">>)
    ELSE IF previous.aware # now.aware
    THEN Result(p, FALSE, last, <<>>, <<>>,
                "Error calculating travel metrics",
                <<"can't subtract offset-naive and offset-aware datetimes">>)
    ELSE
    LET time_diff_minutes == TimeDifference(now, previous)
        is_impossible ==
            /\ WithinTimeWindow(time_diff_minutes)
            /\ DifferentLocation(last.country, cur.country, distance_km)
    IN
    Result(p, is_impossible, last, <<distance_km>>, <<time_diff_minutes>>,
           IF ~is_impossible THEN "Normal travel pattern"
           ELSE "IMPOSSIBLE TRAVEL DETECTED",
           IF ~is_impossible THEN <<>>
           ELSE IF last.country # cur.country
           THEN <<last.country, cur.country, time_diff_minutes, distance_km>>
           ELSE <<last.city, last.country, cur.city, cur.country,
                  time_diff_minutes, distance_km>>)

\* a verdict from the user's record with the least timestamp text that the
\* history read saw
VerdictFromOldest(p) ==
    IF last_login[p] = None THEN VerdictFor(p, None)
    ELSE VerdictFor(p, CHOOSE r \in UserRows(seen[p][1], arg[p].user) :
                          \A o \in UserRows(seen[p][1], arg[p].user) :
                             TextLess(r.timestamp, o.timestamp) \/ r.id <= o.id)

\* the verdict of the request: from the one record get_last_login returned
Verdict(p) == VerdictFor(p, last_login[p])

\* add_login has returned: the verdict is computed and returned, or the
\* exception of geodesic leaves analyze
AnalyzeVerdict(p) ==
    /\ pc[p] = "verdict"
    /\ Return(p, Verdict(p))
    /\ UNCHANGED <<svc, wazuh, db, seq, lock, txn, op, arg, before, outcome, current_location, last_login,
                   count, seen, appended, calls>>

-----------------------------------------------------------------------------
(* One analyze request on a store that earlier analyze requests or direct  *)
(* add_login calls have filled (add_login stores any timestamp text)       *)

AnalyzeTimestamps ==
    {TsText(0, "Z"), TsText(40, "Z"), TsText(49, "Z"), TsText(50, "Z"),
     TsText(51, "Z"), TsText(600, "+01:00"), TsText(0, ""), NotADate}

ResolvableIps == {ip \in Ips : GetLocation([kind |-> "json", data |-> IpApi[ip]]) # None}

\* a row as add_login stores it for a login from ip at ts
StoredLogin(id, user, ip, ts) ==
    Row(id, user, ip, GetLocation([kind |-> "json", data |-> IpApi[ip]]), ts)

\* older rows of the same user that fill the history up to the cap
Fillers(user) ==
    {StoredLogin(id, user, "ip_casablanca", TsText(0, "Z")) :
        id \in 1..(MaxRecordsPerUser - 1)}

\* the stores the request finds: empty, one row, or a full history
Seeds(ips, timestamps) ==
    {{}} \cup
    UNION {{ {StoredLogin(MaxRecordsPerUser, u, ip, ts)},
             Fillers(u) \cup {StoredLogin(MaxRecordsPerUser, u, ip, ts)} } :
           u \in Users, ip \in ips, ts \in timestamps}

SeedStores == Seeds(ResolvableIps, AnalyzeTimestamps)

InitSeeded(stores) ==
    /\ ServiceReady
    /\ MainNotStarted
    /\ db \in stores
    /\ seq = IF db = {} THEN 0 ELSE MaxRecordsPerUser
    /\ appended = db
    /\ lock = NoProc
    /\ txn = NoTxn
    /\ pc = [p \in Procs |-> "idle"]
    /\ op = [p \in Procs |-> "none"]
    /\ arg = [p \in Procs |-> NoArg]
    /\ current_location = [p \in Procs |-> NoLocation]
    /\ last_login = [p \in Procs |-> None]
    /\ count = [p \in Procs |-> 0]
    /\ ret = [p \in Procs |-> NoRet]
    /\ outcome = [p \in Procs |-> NoOutcome]
    /\ before = [p \in Procs |-> [rows |-> {}, seq |-> 0]]
    /\ seen = [p \in Procs |-> <<>>]
    /\ calls = 0

InitAnalyze == InitSeeded(SeedStores)

AnalyzeCall(p) ==
    /\ calls = 0
    /\ \E ip \in Ips, ts \in AnalyzeTimestamps : CallAnalyze(p, "alice", ip, ts)

NextAnalyze ==
    \/ AnalyzeCall("r1")
    \/ AnalyzeGeolocate("r1")
    \/ AnalyzeGetLastLogin("r1")
    \/ AddLoginInsert("r1")
    \/ AddLoginCount("r1")
    \/ AddLoginEvict("r1")
    \/ AddLoginCommit("r1")
    \/ AnalyzeVerdict("r1")

SpecAnalyze == InitAnalyze /\ [][NextAnalyze]_vars

\* One analyze request with resolver answers and timestamp texts of every
\* shape, on a store filled by earlier requests of that kind
WideIps ==
    {"ip_casablanca", "ip_tarifa", "ip_private", "ip_beyond_pole", "ip_no_place"}

WideTimestamps == {TsText(0, "Z"), TsText(60, ""), DateOnly, NotADate}

WideSeedStores ==
    Seeds({"ip_casablanca", "ip_beyond_pole"}, WideTimestamps)

InitAnalyzeWide == InitSeeded(WideSeedStores)

AnalyzeCallWide(p) ==
    /\ calls = 0
    /\ \E ip \in WideIps, ts \in WideTimestamps : CallAnalyze(p, "alice", ip, ts)

NextAnalyzeWide ==
    \/ AnalyzeCallWide("r1")
    \/ AnalyzeGeolocate("r1")
    \/ AnalyzeGetLastLogin("r1")
    \/ AddLoginInsert("r1")
    \/ AddLoginCount("r1")
    \/ AddLoginEvict("r1")
    \/ AddLoginCommit("r1")
    \/ AnalyzeVerdict("r1")

SpecAnalyzeWide == InitAnalyzeWide /\ [][NextAnalyzeWide]_vars

\* Two analyze requests in flight at once, for one user or for two, on a
\* store that earlier requests have filled
ConcurrentIps == {"ip_casablanca", "ip_tarifa"}

ConcurrentSeedStores == Seeds({"ip_casablanca"}, {TsText(0, "Z")})

InitAnalyzeConcurrent == InitSeeded(ConcurrentSeedStores)

\* each request slot serves one request; the first is alice's
AnalyzeCallConcurrent(p) ==
    /\ op[p] = "none"
    /\ \E u \in (IF p = "r1" THEN {"alice"} ELSE Users),
          ip \in ConcurrentIps, ts \in ConcurrentTimestamps :
          CallAnalyze(p, u, ip, ts)

NextAnalyzeConcurrent ==
    \E p \in Procs :
       \/ AnalyzeCallConcurrent(p)
       \/ AnalyzeGeolocate(p)
       \/ AnalyzeGetLastLogin(p)
       \/ AddLoginInsert(p)
       \/ AddLoginBusy(p)
       \/ AddLoginCount(p)
       \/ AddLoginEvict(p)
       \/ AddLoginCommit(p)
       \/ AnalyzeVerdict(p)

SpecAnalyzeConcurrent == InitAnalyzeConcurrent /\ [][NextAnalyzeConcurrent]_vars

-----------------------------------------------------------------------------
(* The /analyze route: analyze_login(query).  A text is the sequence of    *)
(* its pieces: the separators "|", "=", " ", their percent-encoded forms   *)
(* and whole words.                                                        *)

\* unquote(query): percent-encoded pieces are decoded once more
Unquote(s) ==
    [i \in 1..Len(s) |->
        CASE s[i] = "%7C" -> "|"
          [] s[i] = "%3D" -> "="
          [] s[i] = "%20" -> " "
          [] OTHER -> s[i]]

\* the position of the first sep in s, 0 when there is none
Find(s, sep) ==
    IF \A i \in 1..Len(s) : s[i] # sep THEN 0
    ELSE CHOOSE i \in 1..Len(s) :
            s[i] = sep /\ \A j \in 1..(i - 1) : s[j] # sep

\* s.split(sep): the empty text gives one empty part
RECURSIVE Split(_, _)
Split(s, sep) ==
    IF Find(s, sep) = 0 THEN <<s>>
    ELSE <<SubSeq(s, 1, Find(s, sep) - 1)>>
         \o Split(SubSeq(s, Find(s, sep) + 1, Len(s)), sep)

\* s.strip()
RECURSIVE Strip(_)
Strip(s) ==
    IF s # <<>> /\ Head(s) = " " THEN Strip(Tail(s))
    ELSE IF s # <<>> /\ s[Len(s)] = " " THEN Strip(SubSeq(s, 1, Len(s) - 1))
    ELSE s

\* key, value = param.split("=", 1), both stripped
KeyOf(param) == Strip(SubSeq(param, 1, Find(param, "=") - 1))
ValueOf(param) == Strip(SubSeq(param, Find(param, "=") + 1, Len(param)))

\* params.get(key) after the loop over decoded_query.split("|"): the value
\* of the last part with "=" and that key; the empty text stands for None
\* as well (only `not value` is asked of it)
RECURSIVE ParamsGet(_, _)
ParamsGet(parts, key) ==
    IF parts = <<>> THEN <<>>
    ELSE LET param == parts[Len(parts)]
         IN IF Find(param, "=") # 0 /\ KeyOf(param) = <<key>>
            THEN ValueOf(param)
            ELSE ParamsGet(SubSeq(parts, 1, Len(parts) - 1), key)

\* user, ip and ts of the query
QueryParams(query) ==
    LET parts == Split(Unquote(query), "|")
    IN [user |-> ParamsGet(parts, "user"),
        ip |-> ParamsGet(parts, "ip"),
        ts |-> ParamsGet(parts, "ts")]

\* missing, in the order user, ip, ts
Missing(params) ==
    (IF params.user = <<>> THEN <<"user">> ELSE <<>>)
    \o (IF params.ip = <<>> THEN <<"ip">> ELSE <<>>)
    \o (IF params.ts = <<>> THEN <<"ts">> ELSE <<>>)

\* a route whose last handler catches the HTTPException too
RouteExceptAny(e) ==
    [kind |-> "HTTPException", status_code |-> 500, missing |-> <<>>]

\* except HTTPException: raise; except Exception: HTTPException(500)
RouteExcept(e) ==
    IF e.kind = "HTTPException" THEN e
    ELSE [kind |-> "HTTPException", status_code |-> 500, missing |-> <<>>]

\* the timestamp text a word of the query stands for
TimestampWord(w) ==
    CASE w = "ts_10_Z" -> TsText(10, "Z")
      [] w = "not-a-date" -> NotADate

\* the parts a query is put together from: well-formed parameters, ones
\* without value, without "=", with blanks, with encoded separators, with
\* another key, and the empty part
ParamTexts ==
    {<<"user", "=", "alice">>, <<"user", "=">>, <<"user", "=", " ">>,
     <<"user">>, <<" ", "user", " ", "=", "%20", "alice", " ">>,
     <<"user", "%3D", "alice", "%7C", "ip", "=", "ip_tarifa">>,
     <<"User", "=", "alice">>,
     <<"ip", "=", "ip_casablanca">>, <<"ip", "=">>,
     <<"ts", "=", "ts_10_Z">>, <<"ts", "=", "not-a-date">>, <<"ts", "=">>,
     <<"=", "alice">>, <<>>}

\* at most this many parts in a query
MaxParams == 3

\* the parts joined with "|"
RECURSIVE Join(_)
Join(parts) ==
    IF parts = <<>> THEN <<>>
    ELSE IF Len(parts) = 1 THEN parts[1]
    ELSE parts[1] \o <<"|">> \o Join(Tail(parts))

QueryParts == UNION {[1..n -> ParamTexts] : n \in 0..MaxParams}

\* analyze_login(query) up to its first await, for the query made of parts:
\* the parameters are parsed; with one of them missing HTTPException(400)
\* leaves the handler through `except HTTPException: raise`, otherwise
\* detector.analyze(user, ip, ts) is called
AnalyzeLogin(p, parts) ==
    LET params == QueryParams(Join(parts))
    IN IF Missing(params) # <<>>
       THEN /\ pc[p] = "idle"
            /\ op' = [op EXCEPT ![p] = "analyze"]
            /\ arg' = [arg EXCEPT ![p] =
                         [user |-> "", ip |-> "", timestamp |-> NotADate,
                          query |-> parts]]
            /\ current_location' = [current_location EXCEPT ![p] = NoLocation]
            /\ last_login' = [last_login EXCEPT ![p] = None]
            /\ count' = [count EXCEPT ![p] = 0]
            /\ outcome' = [outcome EXCEPT ![p] = NoOutcome]
            /\ before' = [before EXCEPT ![p] = [rows |-> db, seq |-> seq]]
            /\ seen' = [seen EXCEPT ![p] = <<>>]
            /\ calls' = calls + 1
            /\ ret' = [ret EXCEPT ![p] =
                         RouteExcept([kind |-> "HTTPException",
                                      status_code |-> 400,
                                      missing |-> Missing(params)])]
            /\ UNCHANGED <<svc, wazuh, db, seq, lock, txn, appended, pc>>
       ELSE Begin(p, "analyze",
                  [user |-> params.user[1], ip |-> params.ip[1],
                   timestamp |-> TimestampWord(params.ts[1]),
                   query |-> parts],
                  NoLocation, "geolocate")

\* one request to /analyze with any query, on a store that earlier requests
\* have filled
NextRoute ==
    \/ (calls = 0 /\ \E parts \in QueryParts : AnalyzeLogin("r1", parts))
    \/ AnalyzeGeolocate("r1")
    \/ AnalyzeGetLastLogin("r1")
    \/ AddLoginInsert("r1")
    \/ AddLoginCount("r1")
    \/ AddLoginEvict("r1")
    \/ AddLoginCommit("r1")
    \/ AnalyzeVerdict("r1")

SpecRoute == InitAnalyzeConcurrent /\ [][NextRoute]_vars

-----------------------------------------------------------------------------
(* The Wazuh integration script: one run of main().  A JSON value is       *)
(* written as its JSON text; an alert is the function from the paths the   *)
(* script looks at to the values found there, "null" where nothing is.     *)

\* the paths main() tries, in the order of DEFAULT_USER_PATHS,
\* DEFAULT_IP_PATHS and DEFAULT_TS_PATHS (two, one and one of them)
UserPaths == <<"data.user", "user">>
IpPaths == <<"data.srcip">>
TsPaths == <<"data.timestamp">>

\* the alerts of the runs: a user name, a blank one or an object at
\* data.user, a user at the top level, an ip, a timestamp as a string or
\* as another scalar, and the agent as an object or as a string
Alerts ==
    {[p \in {"data.user", "user", "data.srcip", "data.timestamp", "agent"} |->
         CASE p = "data.user" -> u1
           [] p = "user" -> u2
           [] p = "data.srcip" -> ip
           [] p = "data.timestamp" -> ts
           [] p = "agent" -> ag] :
       u1 \in {"null", "\"alice\"", "\" \"", "{}"},
       u2 \in {"null", "\"bob\""},
       ip \in {"null", "\"ip_casablanca\"", "\"\""},
       ts \in {"null", "\"ts_10_Z\"", "true"},
       ag \in {"null", "{\"id\":\"000\"}", "{\"id\":\"001\"}", "\"manager\""}}

\* what may stand on stdin: nothing, blanks, text that is no JSON, a JSON
\* array, a JSON object
StdinTexts ==
    {[kind |-> k, alert |-> <<>>] : k \in {"empty", "blank", "invalid", "array"}}
    \cup {[kind |-> "object", alert |-> a] : a \in Alerts}

\* get_by_path(payload, path): None ("null") unless payload is an object
\* that has the path
GetByPath(payload, path) ==
    IF payload.kind = "object" /\ path \in DOMAIN payload.alert
    THEN payload.alert[path]
    ELSE "null"

\* isinstance(value, (str, int, float)): bool is an int
IsScalar(value) == value \notin {"null", "{}"}

\* str(value).strip()
StrStrip(value) ==
    CASE value = "\"alice\"" -> "alice"
      [] value = "\"bob\"" -> "bob"
      [] value = "\"ip_casablanca\"" -> "ip_casablanca"
      [] value = "\"ts_10_Z\"" -> "ts_10_Z"
      [] value = "true" -> "True"
      [] value \in {"\" \"", "\"\""} -> ""

\* first_match(payload, paths); the empty string stands for None, which
\* first_match never returns as a string
RECURSIVE FirstMatch(_, _)
FirstMatch(payload, paths) ==
    IF paths = <<>> THEN ""
    ELSE LET value == GetByPath(payload, Head(paths))
         IN IF IsScalar(value) /\ StrStrip(value) # ""
            THEN StrStrip(value)
            ELSE FirstMatch(payload, Tail(paths))

\* urlencode of the query value: its separators are percent-encoded
UrlEncode(s) ==
    [i \in 1..Len(s) |->
        CASE s[i] = "|" -> "%7C"
          [] s[i] = "=" -> "%3D"
          [] OTHER -> s[i]]

\* build_url: the query string of the GET /analyze request
BuildUrl(user, ip, ts) ==
    <<"query", "=">>
    \o UrlEncode(<<"user", "=", user, "|", "ip", "=", ip, "|", "ts", "=", ts>>)

\* a JSON object of the API with these values; "absent" leaves the key out
ResultObject(detected, message) ==
    [k \in {n \in {"impossible_travel_detected", "message"} :
               (IF n = "message" THEN message ELSE detected) # "absent"} |->
        IF k = "message" THEN message ELSE detected]

\* what urlopen can end in: an HTTP error status (the API answers 400 and
\* 500 with a JSON body), no connection, and a 200 response whose body is
\* no JSON, a JSON value that is no object, or an object
ApiResponses ==
    {[kind |-> "HTTPError", code |-> c, body |-> NoBody] : c \in {400, 500}}
    \cup {[kind |-> "URLError", code |-> 0, body |-> NoBody]}
    \cup {[kind |-> "ok", code |-> 200, body |-> [json |-> j, object |-> <<>>]] :
             j \in {"invalid", "null", "array"}}
    \cup {[kind |-> "ok", code |-> 200,
           body |-> [json |-> "object", object |-> ResultObject(d, m)]] :
             d \in {"absent", "true", "false", "\"false\"", "null"},
             m \in {"absent", "\"Normal travel pattern\""}}

\* bool(value)
Truthy(value) == value \notin {"false", "null", "\"\"", "0"}

\* detected = bool(result.get("impossible_travel_detected", False))
Detected(result) == Truthy(DictGet(result, "impossible_travel_detected", "false"))

\* output, as far as it depends on the result
Output(result) ==
    [impossible_travel_detected |-> Detected(result),
     message |-> DictGet(result, "message", "\"No message\"")]

\* build_queue_message raises when alert["agent"] is no object
QueueMessageFails(payload) == GetByPath(payload, "agent") = "\"manager\""

\* build_enrichment_payload and build_queue_message: the location of the
\* message is the manager's for no agent or agent 000, else the agent's
QueueMessage(payload, result) ==
    [queue |-> "1",
     location |-> IF GetByPath(payload, "agent") \in {"null", "{\"id\":\"000\"}"}
                  THEN "impossible_travel"
                  ELSE "[001] (unknown) unknown->impossible_travel",
     integration |-> "impossible_travel",
     impossible_travel |-> result]

\* return code / print(json.dumps(output)); return 0 / an exception that
\* nothing catches (the interpreter exits with 1)
Exit(code, printed) ==
    /\ main_pc' = "done"
    /\ exit_code' = <<code>>
    /\ stdout' = printed

\* main() from its start to the call of urlopen: stdin is read and parsed,
\* user, ip and ts are looked up, the request is built
MainStart ==
    /\ main_pc = "start"
    /\ \E text \in StdinTexts :
          /\ stdin' = text
          /\ IF text.kind \in {"empty", "blank", "invalid"}
             THEN /\ Exit(2, <<>>)
                  /\ UNCHANGED request
             ELSE LET user == FirstMatch(text, UserPaths)
                      ip == FirstMatch(text, IpPaths)
                      ts == FirstMatch(text, TsPaths)
                  IN IF user = "" \/ ip = "" \/ ts = ""
                     THEN /\ Exit(3, <<>>)
                          /\ UNCHANGED request
                     ELSE /\ request' = BuildUrl(user, ip, ts)
                          /\ main_pc' = "urlopen"
                          /\ UNCHANGED <<stdout, exit_code>>
    /\ UNCHANGED <<response, queue>>
    /\ UNCHANGED <<db, seq, lock, txn, pc, op, arg, outcome, current_location,
                   last_login, count, ret, before, seen, appended, calls, svc>>

\* urlopen returns or raises; the body is parsed; the verdict is printed,
\* or first the message for the queue socket is built
MainUrlopen ==
    /\ main_pc = "urlopen"
    /\ \E r \in ApiResponses :
          /\ response' = r
          /\ IF r.kind # "ok" THEN Exit(4, <<>>)
             ELSE IF r.body.json = "invalid" THEN Exit(5, <<>>)
             ELSE IF r.body.json # "object" THEN Exit(1, <<>>)
             ELSE IF Detected(r.body.object) /\ ~QueueMessageFails(stdin)
             THEN /\ main_pc' = "sendto"
                  /\ UNCHANGED <<stdout, exit_code>>
             ELSE Exit(0, <<Output(r.body.object)>>)
    /\ UNCHANGED <<stdin, request, queue>>
    /\ UNCHANGED <<db, seq, lock, txn, pc, op, arg, outcome, current_location,
                   last_login, count, ret, before, seen, appended, calls, svc>>

\* sock.sendto delivers the message or raises (no socket, no permission);
\* the exception is logged; the verdict is printed
MainSendto ==
    /\ main_pc = "sendto"
    /\ \/ queue' = Append(queue, QueueMessage(stdin, response.body.object))
       \/ UNCHANGED queue
    /\ Exit(0, <<Output(response.body.object)>>)
    /\ UNCHANGED <<stdin, request, response>>
    /\ UNCHANGED <<db, seq, lock, txn, pc, op, arg, outcome, current_location,
                   last_login, count, ret, before, seen, appended, calls, svc>>

NextWazuh == MainStart \/ MainUrlopen \/ MainSendto

SpecWazuh == Init /\ [][NextWazuh]_vars

-----------------------------------------------------------------------------
(* Properties of analyze, checked under SpecAnalyze *)

\* the resolver answered with a location
Resolved(o) == o.kind = "json" /\ o.data.status # "fail"

\* the resolver reported failure, timed out or raised
ResolverFailed(o) ==
    \/ o.kind \in {"timeout", "http_error", "error"}
    \/ o.kind = "json" /\ o.data.status = "fail"

Analyzed(p) == ret[p].kind = "analyze"

\* C7: general case.  With a previous observation of another (country,
\* city) and two timestamps that can be subtracted, the flag is true
\* exactly when the absolute time difference is at most the window and the
\* country differs or the distance is at least the minimum distance; with
\* 5 min / 100 km: 4.9 min, other country, 50 km: true; 5.1 min: false;
\* same country, 99 km: false; same country, 150 km, 4 min: true.
C7_GeneralCaseVerdict ==
    \A p \in Procs :
       (Analyzed(p) /\ last_login[p] # None) =>
          LET prev == last_login[p]
              cur == ret[p].current_location
              t1 == ParseTimestamp(prev.timestamp)
              t2 == ParseTimestamp(ret[p].current_timestamp)
              minutes10 == Abs(t2.t - t1.t)
              km == Abs(cur.longitude - prev.longitude)
              abroad == prev.country # cur.country
              flag == ret[p].impossible_travel_detected
          IN
          ( /\ ~(prev.country = cur.country /\ prev.city = cur.city)
            /\ t1.ok /\ t2.ok /\ t1.aware = t2.aware )
          => /\ flag <=> ( /\ minutes10 <= 10 * time_window_minutes
                           /\ (abroad \/ km >= min_distance_km) )
             /\ (minutes10 = 49 /\ abroad /\ km = 50) => flag
             /\ (minutes10 = 51 /\ abroad /\ km = 50) => ~flag
             /\ (~abroad /\ km = 99) => ~flag
             /\ (minutes10 = 40 /\ ~abroad /\ km = 150) => flag

\* the first example: detected at 4.9 minutes, 50 km, another country
C7_Witness ==
    \E p \in Procs :
       /\ Analyzed(p)
       /\ ret[p].impossible_travel_detected
       /\ ret[p].time_difference_minutes = <<49>>
       /\ ret[p].distance_km = <<50>>
       /\ ret[p].previous_login.country # ret[p].current_location.country

\* C8: same-location suppression.  When the row the store returned as the
\* user's last login has the country and city of the new login, the
\* verdict is not detected, with the same-location message, whatever the
\* coordinates and timestamps.
C8_SameLocationSuppressed ==
    \A p \in Procs :
       ( /\ Analyzed(p)
         /\ last_login[p] # None
         /\ last_login[p].country = current_location[p].country
         /\ last_login[p].city = current_location[p].city )
       => /\ ~ret[p].impossible_travel_detected
          /\ ret[p].message = "Login from same location as previous login"

\* suppressed although the stored timestamp is no date and the coordinates
\* are 150 km apart
C8_Witness ==
    \E p \in Procs :
       /\ Analyzed(p)
       /\ ret[p].message = "Login from same location as previous login"
       /\ last_login[p].timestamp = NotADate
       /\ Abs(last_login[p].longitude - current_location[p].longitude) = 150

\* C9: first login.  A request with a resolved ip and a parseable
\* timestamp, for a user without stored rows, is answered not detected,
\* "First login for this user", no previous_login, and afterwards
\* get_last_login(user) returns the observation of the request.
C9_FirstLogin ==
    \A p \in Procs :
       ( /\ Analyzed(p)
         /\ Resolved(outcome[p])
         /\ ParseTimestamp(arg[p].timestamp).ok
         /\ UserRows(before[p].rows, arg[p].user) = {} )
       => /\ ~ret[p].impossible_travel_detected
          /\ ret[p].message = "First login for this user"
          /\ ret[p].previous_login = None
          /\ GetLastLogin(db, arg[p].user) # {None}
          /\ \A r \in GetLastLogin(db, arg[p].user) :
                /\ r.user = arg[p].user
                /\ r.ip = arg[p].ip
                /\ r.timestamp = arg[p].timestamp
                /\ r.country = outcome[p].data.country
                /\ r.city = outcome[p].data.city
                /\ r.latitude = outcome[p].data.lat
                /\ r.longitude = outcome[p].data.lon

\* a first login with a Z timestamp while another user has a history
C9_Witness ==
    \E p \in Procs :
       /\ Analyzed(p)
       /\ ret[p].message = "First login for this user"
       /\ arg[p].timestamp.sfx = "Z"
       /\ before[p].rows # {}
       /\ CountUser(db, arg[p].user) = 1

\* C10: geolocation failure.  When the resolver fails, the verdict is not
\* detected, "Failed to geolocate IP address"; there was no history read
\* and no append, and the store is as it was when the request began.
C10_GeolocationFailure ==
    \A p \in Procs :
       (Analyzed(p) /\ ResolverFailed(outcome[p]))
       => /\ ~ret[p].impossible_travel_detected
          /\ ret[p].message = "Failed to geolocate IP address"
          /\ seen[p] = <<>>
          /\ db = before[p].rows
          /\ seq = before[p].seq
          /\ appended = before[p].rows

\* a timed-out lookup for a user with a stored history
C10_Witness ==
    \E p \in Procs :
       /\ Analyzed(p)
       /\ outcome[p].kind = "timeout"
       /\ UserRows(db, arg[p].user) # {}

\* C11: malformed timestamp.  With a resolved ip, a request whose timestamp
\* text is no date is answered not detected, "Invalid timestamp format";
\* the history was not read, nothing was appended and the store is as it
\* was when the request began, so no row of the user comes from the call.
C11_MalformedTimestamp ==
    \A p \in Procs :
       (Analyzed(p) /\ Resolved(outcome[p]) /\ ~arg[p].timestamp.date)
       => /\ ~ret[p].impossible_travel_detected
          /\ ret[p].message = "Invalid timestamp format"
          /\ ret[p].previous_login = None
          /\ seen[p] = <<>>
          /\ db = before[p].rows
          /\ seq = before[p].seq
          /\ appended = before[p].rows

\* "not-a-date" from a resolved ip, for a user with a stored history
C11_Witness ==
    \E p \in Procs :
       /\ Analyzed(p)
       /\ Resolved(outcome[p])
       /\ arg[p].timestamp = NotADate
       /\ ret[p].message = "Invalid timestamp format"
       /\ UserRows(db, arg[p].user) # {}

-----------------------------------------------------------------------------
(* Properties of analyze over answers and timestamp texts of every shape,  *)
(* checked under SpecAnalyzeWide                                           *)

\* the text has a date but no offset: a date-time without zone designator,
\* or a date alone
NoZone(ts) == ts.date /\ ts.sfx \in {"", "date-only"}

\* C12 as stated: only timestamps with an offset are accepted.  A request
\* whose timestamp has no zone designator, or is a date alone, is answered
\* "Invalid timestamp format" and appends nothing, and every row a request
\* has appended has a timestamp that parses to an aware datetime.
C12_OnlyAwareAccepted ==
    \A p \in Procs :
       (Analyzed(p) /\ Resolved(outcome[p])) =>
          /\ NoZone(arg[p].timestamp) =>
                /\ ret[p].message = "Invalid timestamp format"
                /\ appended = before[p].rows
          /\ \A r \in appended \ before[p].rows :
                /\ ParseTimestamp(r.timestamp).ok
                /\ ParseTimestamp(r.timestamp).aware

\* C12, amended: the timestamps accepted are those datetime.fromisoformat
\* parses after the Z replacement.  A request with a resolved ip is
\* answered "Invalid timestamp format" exactly when its text is no date; a
\* text without zone designator, or a date alone, is accepted and appended
\* unchanged, so every row a request has appended has a timestamp that
\* parses, to an aware or to a naive datetime.
C12_ParseableAccepted ==
    \A p \in Procs :
       (Analyzed(p) /\ Resolved(outcome[p])) =>
          /\ ret[p].message = "Invalid timestamp format" <=> ~arg[p].timestamp.date
          /\ NoZone(arg[p].timestamp) =>
                \E r \in appended \ before[p].rows :
                   /\ r.timestamp = arg[p].timestamp
                   /\ ~ParseTimestamp(r.timestamp).aware
          /\ \A r \in appended \ before[p].rows : ParseTimestamp(r.timestamp).ok

\* a date alone was accepted: the request is answered as a first login and
\* its row is the user's stored row
C12_Witness ==
    \E p \in Procs :
       /\ Analyzed(p)
       /\ arg[p].timestamp = DateOnly
       /\ ret[p].message = "First login for this user"
       /\ \E r \in UserRows(db, arg[p].user) : r.timestamp = DateOnly

\* C13: branch order.  The verdict of a request is decided by the first of
\* these conditions that holds: the resolver failed; the timestamp text
\* does not parse; the user had no stored row; the row read as last login
\* has the country and city of the resolved location; otherwise the general
\* case, which ends in one of its three messages.
C13_BranchOrder ==
    \A p \in Procs :
       Analyzed(p) =>
          ret[p].message \in
             IF ResolverFailed(outcome[p])
             THEN {"Failed to geolocate IP address"}
             ELSE IF ~ParseTimestamp(arg[p].timestamp).ok
             THEN {"Invalid timestamp format"}
             ELSE IF UserRows(before[p].rows, arg[p].user) = {}
             THEN {"First login for this user"}
             ELSE IF /\ last_login[p].country = current_location[p].country
                     /\ last_login[p].city = current_location[p].city
             THEN {"Login from same location as previous login"}
             ELSE {"Normal travel pattern", "IMPOSSIBLE TRAVEL DETECTED",
                   "Error calculating travel metrics"}

\* an unresolvable ip together with an unparseable timestamp, for a user
\* without history: the geolocation failure decides
C13_Witness ==
    \E p \in Procs :
       /\ Analyzed(p)
       /\ ResolverFailed(outcome[p])
       /\ arg[p].timestamp = NotADate
       /\ UserRows(before[p].rows, arg[p].user) = {}
       /\ ret[p].message = "Failed to geolocate IP address"

\* the request reached the general case: resolved ip, parsed timestamp, a
\* last login of another (country, city)
GeneralCase(p) ==
    /\ op[p] = "analyze" /\ pc[p] = "idle" /\ ret[p] # NoRet
    /\ current_location[p] # NoLocation
    /\ ParseTimestamp(arg[p].timestamp).ok
    /\ last_login[p] # None
    /\ ~(/\ last_login[p].country = current_location[p].country
         /\ last_login[p].city = current_location[p].city)

\* the distance or the time difference cannot be computed: a latitude the
\* distance routine rejects, a stored timestamp that does not parse, or a
\* naive and an aware datetime
ComputationFails(p) ==
    \/ ~ValidLatitude(last_login[p].latitude)
    \/ ~ValidLatitude(current_location[p].latitude)
    \/ ~ParseTimestamp(last_login[p].timestamp).ok
    \/ ParseTimestamp(last_login[p].timestamp).aware
          # ParseTimestamp(arg[p].timestamp).aware

\* C14: every exception of the distance or time computation of the general
\* case becomes a verdict: not detected, a message embedding the error
\* text, previous_login populated, no distance and no time difference; no
\* exception leaves analyze.
C14_ComputationErrorsBecomeVerdicts ==
    \A p \in Procs :
       (GeneralCase(p) /\ ComputationFails(p))
       => /\ ret[p].kind = "analyze"
          /\ ~ret[p].impossible_travel_detected
          /\ ret[p].message = "Error calculating travel metrics"
          /\ ret[p].message_cites # <<>>
          /\ ret[p].previous_login = last_login[p]
          /\ ret[p].distance_km = <<>>
          /\ ret[p].time_difference_minutes = <<>>

-----------------------------------------------------------------------------
(* Properties of the result and of the persistence of a request *)

\* the request passed the geolocation and the timestamp validation
Validated(p) ==
    /\ op[p] = "analyze"
    /\ current_location[p] # NoLocation
    /\ ParseTimestamp(arg[p].timestamp).ok

\* C15: field presence.  distance_km and time_difference_minutes are both
\* present when the two-point comparison of the general case completed and
\* both absent on every other path; previous_login is present exactly when
\* a validated request read a last login (same location, general case,
\* computation error) and then is the row read from the store.
C15_FieldPresence ==
    \A p \in Procs :
       Analyzed(p) =>
          LET completed == GeneralCase(p) /\ ~ComputationFails(p)
              compared == Validated(p) /\ last_login[p] # None
          IN /\ ret[p].distance_km # <<>> <=> completed
             /\ ret[p].time_difference_minutes # <<>> <=> completed
             /\ ret[p].previous_login # None <=> compared
             /\ compared =>
                   /\ ret[p].previous_login = last_login[p]
                   /\ ret[p].previous_login \in GetLastLogin(seen[p][1], arg[p].user)

\* a computation error: previous_login present, the metrics absent
C15_Witness ==
    \E p \in Procs :
       /\ Analyzed(p)
       /\ ret[p].message = "Error calculating travel metrics"
       /\ ret[p].previous_login # None
       /\ ret[p].distance_km = <<>>
       /\ ret[p].time_difference_minutes = <<>>

\* the rows the request of p has appended
AppendedBy(p) == appended \ before[p].rows

\* C16: persistence rule.  A validated request whose add_login has
\* returned (its verdict is being computed, or it has ended) has appended
\* exactly one row: the next id, the user, ip and resolved location of the
\* call and the timestamp text unchanged, whatever the verdict; the append
\* is committed by then.  A request that ended on the geolocation-failure
\* or the bad-timestamp path has appended none.
C16_PersistenceRule ==
    \A p \in Procs :
       /\ (Validated(p) /\ (pc[p] = "verdict" \/ (pc[p] = "idle" /\ ret[p] # NoRet)))
          => /\ AppendedBy(p) =
                   {[id |-> before[p].seq + 1,
                     user |-> arg[p].user,
                     ip |-> arg[p].ip,
                     country |-> GetLocation(outcome[p]).country,
                     city |-> GetLocation(outcome[p]).city,
                     latitude |-> GetLocation(outcome[p]).latitude,
                     longitude |-> GetLocation(outcome[p]).longitude,
                     timestamp |-> arg[p].timestamp]}
             /\ seq = before[p].seq + 1
             /\ lock = NoProc /\ txn = NoTxn
             /\ db \subseteq appended
             /\ Cardinality(db) <= Cardinality(before[p].rows) + 1
       /\ (Analyzed(p) /\ ~Validated(p))
          => /\ AppendedBy(p) = {}
             /\ db = before[p].rows
             /\ seq = before[p].seq

\* an impossible-travel verdict whose observation, with its Z timestamp, is
\* the user's stored last login
C16_Witness ==
    \E p \in Procs :
       /\ Analyzed(p)
       /\ ret[p].impossible_travel_detected
       /\ arg[p].timestamp.sfx = "Z"
       /\ AppendedBy(p) \subseteq db
       /\ \E r \in AppendedBy(p) : r \in GetLastLogin(db, arg[p].user)

\* C17: step order.  The observation of a request is written only after
\* its verdict has been computed: while a row of the request is appended
\* the request has returned its verdict, and a request that ended without
\* a verdict has written nothing to the store.
C17_WriteAfterVerdict ==
    \A p \in Procs :
       op[p] = "analyze" =>
          /\ (pc[p] = "idle" /\ ret[p] # NoRet /\ ~Analyzed(p))
             => /\ AppendedBy(p) = {}
                /\ db = before[p].rows
                /\ seq = before[p].seq
          /\ AppendedBy(p) # {} => (pc[p] = "idle" /\ Analyzed(p))

-----------------------------------------------------------------------------
(* Properties of purge_database and get_stats: C18 under SpecStoreSeq, C19 *)
(* under SpecStore                                                         *)

\* C18: purge.  With nothing else running, purge_database on a store of K
\* rows returns K and leaves the store empty, and a get_stats on the store
\* as the purge left it (no append since) reports total_records = 0 and
\* unique_users = 0.
C18_PurgeThenStats ==
    \A p \in Procs :
       /\ ret[p].kind = "purge_database"
          => /\ ret[p].value = Cardinality(before[p].rows)
             /\ db = {}
       /\ (ret[p].kind = "get_stats" /\ appended = {})
          => /\ ret[p].total_records = 0
             /\ ret[p].unique_users = 0

\* get_stats after a purge of a store that at least two appends had
\* filled, and no append since
C18_Witness ==
    \E p \in Procs :
       /\ ret[p].kind = "get_stats"
       /\ ret[p].total_records = 0 /\ ret[p].unique_users = 0
       /\ appended = {}
       /\ seq >= 2

\* C19: in every interleaving with concurrent add_login calls the number
\* purge_database returns is the number of rows its DELETE removed.
C19_PurgeCountIsRemoved ==
    \A p \in Procs :
       ret[p].kind = "purge_database" => ret[p].value = ret[p].removed

-----------------------------------------------------------------------------
(* Property of the stored locations, checked under SpecAnalyzeWide *)

\* C20: no stored row has the unknown-location sentinel.  Whatever the
\* resolver answers, also a success answer without country or city, a
\* request stores a fully resolved location or nothing: no row of the store
\* has country or city "Unknown".
C20_NoUnknownStored ==
    \A r \in db : r.country # "Unknown" /\ r.city # "Unknown"

-----------------------------------------------------------------------------
(* The /analyze route around analyze *)

\* analyze_login: the verdict is the body of a 200 response; any exception
\* of detector.analyze becomes HTTPException(status_code=500)
AnalyzeStatus(r) == IF r.kind = "raise" THEN 500 ELSE 200

\* C21: failure escalation.  A finished request is answered 500 only when
\* an operation of the history store failed; every other request is
\* answered 200 with a verdict, and on the geolocation-failure,
\* bad-timestamp, first-login, same-location and computation-error paths
\* the verdict is not detected.
C21_OnlyStoreFailuresEscalate ==
    \A p \in Procs :
       (op[p] = "analyze" /\ pc[p] = "idle" /\ ret[p] # NoRet) =>
          /\ AnalyzeStatus(ret[p]) = 500 => ret[p].error = "database is locked"
          /\ AnalyzeStatus(ret[p]) = 200 =>
                /\ Analyzed(p)
                /\ (~(GeneralCase(p) /\ ~ComputationFails(p)))
                      => ~ret[p].impossible_travel_detected

-----------------------------------------------------------------------------
(* Properties of concurrent analyze requests, checked under                *)
(* SpecAnalyzeConcurrent                                                   *)

\* the rows of user u among rows
Own(rows, u) == {r \in rows : r.user = u}

\* the last login of request p was read from the rows of its own user alone
ReadsOwnRows(p) ==
    LET own == Own(seen[p][1], arg[p].user) IN
    /\ last_login[p] = None <=> own = {}
    /\ last_login[p] # None =>
          /\ last_login[p] \in own
          /\ \A o \in own : TextLeq(o.timestamp, last_login[p].timestamp)

\* every change of the rows of a user is the commit of an add_login for
\* that user
OnlyOwnRowsChange ==
    \A v \in Users :
       Own(db', v) # Own(db, v) =>
          \E p \in Procs : lock = p /\ pc[p] = "commit" /\ arg[p].user = v

\* C22: per-user independence.  In every interleaving of requests, an
\* analyze (and the add_login in it) for user u inserts, deletes and
\* changes rows of u only, and its verdict is computed from rows of u only:
\* the last login it compares with is chosen among u's rows as if the rows
\* of other users were not there.
C22_PerUserIndependence ==
    /\ [](\A p \in Procs : (op[p] = "analyze" /\ seen[p] # <<>>) => ReadsOwnRows(p))
    /\ [][OnlyOwnRowsChange]_vars

\* requests for two users in flight at once: the store that p read held
\* a row of the other user with a later timestamp text than p's own last
\* login, and p was answered from its own row
C22_Witness ==
    \E p, q \in Procs :
       /\ Analyzed(p)
       /\ arg[p].user # arg[q].user
       /\ before[p].seq = before[q].seq
       /\ ret[p].previous_login # None
       /\ ret[p].previous_login.user = arg[p].user
       /\ \E r \in seen[p][1] :
             /\ r.user = arg[q].user
             /\ TextLess(ret[p].previous_login.timestamp, r.timestamp)

-----------------------------------------------------------------------------
(* Properties of the general case, checked under SpecAnalyze *)

\* C23: time symmetry.  When the comparison of the general case completed
\* for a new login d minutes after (or before) the previous one, the flag
\* and the reported time difference are those the computation gives for
\* the mirrored login, d minutes before (or after) the previous one.
C23_TimeSymmetry ==
    \A p \in Procs :
       (Analyzed(p) /\ GeneralCase(p) /\ ~ComputationFails(p)) =>
          LET prev == ParseTimestamp(last_login[p].timestamp)
              now == ParseTimestamp(arg[p].timestamp)
              mirrored == [now EXCEPT !.t = prev.t - (now.t - prev.t)]
              distance_km == Geodesic(last_login[p].latitude, last_login[p].longitude,
                                      current_location[p].latitude,
                                      current_location[p].longitude)
          IN /\ ret[p].time_difference_minutes = <<TimeDifference(mirrored, prev)>>
             /\ ret[p].impossible_travel_detected
                   <=> ( /\ WithinTimeWindow(TimeDifference(mirrored, prev))
                         /\ DifferentLocation(last_login[p].country,
                                              current_location[p].country,
                                              distance_km) )

\* a login 4.9 minutes earlier than the stored previous one, detected
C23_Witness ==
    \E p \in Procs :
       /\ Analyzed(p)
       /\ ret[p].impossible_travel_detected
       /\ ret[p].time_difference_minutes = <<49>>
       /\ ParseTimestamp(arg[p].timestamp).t
             < ParseTimestamp(last_login[p].timestamp).t

\* the user's most recent stored observations, as the store orders them:
\* the rows with the greatest timestamp text; None for no row
MostRecent(rows, u) ==
    IF Own(rows, u) = {} THEN {None}
    ELSE {r \in Own(rows, u) :
            \A o \in Own(rows, u) : TextLeq(o.timestamp, r.timestamp)}

\* C24: the verdict is a function of the new observation, the user's most
\* recent stored observation and the configuration.  Every verdict of a
\* validated request is the one computed from the request's user, ip,
\* location and timestamp and a most recent row of the user in the store
\* the request read, whatever older rows that store holds.
C24_VerdictFromMostRecent ==
    \A p \in Procs :
       (Analyzed(p) /\ Validated(p)) =>
          /\ \E m \in MostRecent(seen[p][1], arg[p].user) : ret[p] = VerdictFor(p, m)
          /\ ret[p].previous_login \in MostRecent(seen[p][1], arg[p].user)
          /\ ret[p].user = arg[p].user
          /\ ret[p].current_ip = arg[p].ip
          /\ ret[p].current_timestamp = arg[p].timestamp
          /\ ret[p].current_location = GetLocation(outcome[p])

\* a detected verdict for a user whose history held an older row of another
\* place and time besides the most recent one
C24_Witness ==
    \E p \in Procs :
       /\ Analyzed(p)
       /\ ret[p].impossible_travel_detected
       /\ \E o \in Own(seen[p][1], arg[p].user) :
             /\ o # ret[p].previous_login
             /\ o.city # ret[p].previous_login.city
             /\ o.timestamp # ret[p].previous_login.timestamp

-----------------------------------------------------------------------------
(* Property of get_stats under concurrent callers, checked under SpecStore *)

\* C25: the two numbers get_stats returns describe one committed store
\* state, also when appends or a purge commit while it runs: unique_users
\* is at most total_records, and is 0 exactly when total_records is 0.
C25_StatsOneSnapshot ==
    \A p \in Procs :
       ret[p].kind = "get_stats" =>
          /\ ret[p].unique_users <= ret[p].total_records
          /\ ret[p].unique_users = 0 <=> ret[p].total_records = 0

-----------------------------------------------------------------------------
(* Further properties of the verdict, checked under SpecAnalyze *)

\* C26: the window bound is inclusive.  With the default window of 5
\* minutes, a login resolved to another country whose timestamp is 5
\* minutes (50 tenths) after that of the user's previous login is detected
\* as impossible travel.
C26_FiveMinutesDetected ==
    \A p \in Procs :
       ( /\ Analyzed(p) /\ GeneralCase(p) /\ ~ComputationFails(p)
         /\ last_login[p].country # current_location[p].country
         /\ ParseTimestamp(arg[p].timestamp).t
               - ParseTimestamp(last_login[p].timestamp).t = 50 )
       => /\ time_window_minutes = 5
          /\ ret[p].impossible_travel_detected
          /\ ret[p].message = "IMPOSSIBLE TRAVEL DETECTED"
          /\ ret[p].time_difference_minutes = <<50>>

\* Casablanca at 00:00:00Z, then Tarifa at 00:05:00Z
C26_Witness ==
    \E p \in Procs :
       /\ Analyzed(p)
       /\ ret[p].impossible_travel_detected
       /\ ret[p].previous_login.country = "MA"
       /\ ret[p].current_location.country = "ES"
       /\ ret[p].previous_login.timestamp = TsText(0, "Z")
       /\ ret[p].current_timestamp = TsText(50, "Z")

\* C27: a response that carries distance_km also carries
\* time_difference_minutes, calculated_speed_kmh and threshold_speed_kmh.
C27_SpeedFieldsPresent ==
    \A p \in Procs :
       (Analyzed(p) /\ ret[p].distance_km # <<>>) =>
          /\ ret[p].time_difference_minutes # <<>>
          /\ "calculated_speed_kmh" \in DOMAIN ret[p]
          /\ "threshold_speed_kmh" \in DOMAIN ret[p]

-----------------------------------------------------------------------------
(* Serializability of concurrent requests for one user, checked under      *)
(* SpecAnalyzeConcurrent                                                   *)

\* the store that q read held a row that p's request had appended
ReadAfter(q, p) ==
    \E r \in seen[q][1] :
       /\ r.id > before[p].seq
       /\ r.user = arg[p].user /\ r.ip = arg[p].ip
       /\ r.timestamp = arg[p].timestamp

\* C28: concurrent analyze calls for one user behave as if run one after
\* another.  Of two validated calls for the same user that have both
\* returned a verdict, one has read the history after the other's append
\* (so the other's observation was there to be compared with), and at most
\* one returned "First login for this user".
C28_SerialPerUser ==
    \A p, q \in Procs :
       ( /\ p # q
         /\ arg[p].user = arg[q].user
         /\ Analyzed(p) /\ Validated(p)
         /\ Analyzed(q) /\ Validated(q) )
       => /\ ReadAfter(q, p) \/ ReadAfter(p, q)
          /\ ~( /\ ret[p].message = "First login for this user"
                /\ ret[q].message = "First login for this user" )

-----------------------------------------------------------------------------
(* Property of the start-up, checked under SpecStartup *)

\* the request is in, or has finished, a store operation on the service
\* that get_database_service returned to it
InStoreOperation(p) ==
    \/ pc[p] \in {"stats_total", "stats_unique", "purge_count", "purge_delete",
                  "purge_commit"}
    \/ pc[p] = "idle" /\ ret[p] # NoRet

\* C29: store initialisation under concurrency.  initialize runs at most
\* once, and no request is in a store operation before initialize has
\* completed; no operation finds the table login_history missing.
C29_InitializedBeforeUse ==
    /\ initialize_runs <= 1
    /\ \A p \in Procs :
          /\ InStoreOperation(p) => initialize_runs = 1
          /\ ret[p] # [kind |-> "raise", error |-> "no such table: login_history"]

-----------------------------------------------------------------------------
(* Property of a failing add_login, checked under SpecStoreFaulty *)

\* p's add_login has executed its INSERT and has not committed
AddLoginOpen(p) ==
    op[p] = "add_login" /\ pc[p] \in {"count", "evict", "commit"}

\* p's add_login has ended with an exception
AddLoginFailed(p) ==
    op[p] = "add_login" /\ pc[p] = "idle" /\ ret[p].kind = "raise"

\* C30: add_login is all-or-nothing.  While its transaction is open, and
\* after it failed at any step before its commit, the committed store and
\* the id sequence are what they were before the call, and after the
\* failure no transaction or write lock is left; no committed store holds
\* more than max_records records of a user, i.e. an inserted record without
\* the eviction that goes with it.
C30_AddLoginAllOrNothing ==
    /\ \A p \in Procs :
          /\ (AddLoginOpen(p) \/ AddLoginFailed(p)) =>
                (db = before[p].rows /\ seq = before[p].seq)
          /\ AddLoginFailed(p) => (lock = NoProc /\ txn = NoTxn)
    /\ \A u \in Users : Cardinality({r \in db : r.user = u}) <= MaxRecordsPerUser

\* an add_login on a full history has failed; the history is still full
C30_Witness ==
    \E p \in Procs :
       /\ AddLoginFailed(p)
       /\ ret[p].error = "disk I/O error"
       /\ count[p] = MaxRecordsPerUser + 1
       /\ Cardinality({r \in db : r.user = arg[p].user}) = MaxRecordsPerUser

-----------------------------------------------------------------------------
(* Property of the /analyze route, checked under SpecRoute *)

\* the parts of a query that give the parameter a value that is not empty
Supplies(k) ==
    CASE k = "user" ->
           {<<"user", "=", "alice">>,
            <<" ", "user", " ", "=", "%20", "alice", " ">>,
            <<"user", "%3D", "alice", "%7C", "ip", "=", "ip_tarifa">>}
      [] k = "ip" ->
           {<<"ip", "=", "ip_casablanca">>,
            <<"user", "%3D", "alice", "%7C", "ip", "=", "ip_tarifa">>}
      [] k = "ts" ->
           {<<"ts", "=", "ts_10_Z">>, <<"ts", "=", "not-a-date">>}

\* the parameter is absent from the query or empty in it
Lacks(parts, k) == \A i \in 1..Len(parts) : parts[i] \notin Supplies(k)

\* p serves a request to /analyze
RouteRequest(p) == op[p] = "analyze" /\ "query" \in DOMAIN arg[p]

\* C31: missing parameters.  A request to /analyze whose query lacks user,
\* ip or ts (absent or empty) is answered 400, not 500, with every lacking
\* parameter named, and it has called neither the geolocation resolver nor
\* the history store: the store is what it was.
C31_MissingParameterRejected ==
    \A p \in Procs : \A k \in {"user", "ip", "ts"} :
       (RouteRequest(p) /\ Lacks(arg[p].query, k)) =>
          /\ pc[p] = "idle"
          /\ ret[p].kind = "HTTPException"
          /\ ret[p].status_code = 400
          /\ \E i \in 1..Len(ret[p].missing) : ret[p].missing[i] = k
          /\ outcome[p] = NoOutcome
          /\ seen[p] = <<>>
          /\ db = before[p].rows /\ seq = before[p].seq
          /\ appended = before[p].rows
          /\ lock = NoProc /\ txn = NoTxn

\* a query with a user but an empty ip and no ts was rejected with both
\* named, on a store that holds records
C31_Witness ==
    \E p \in Procs :
       /\ RouteRequest(p)
       /\ arg[p].query = <<<<"user", "=", "alice">>, <<"ip", "=">>>>
       /\ ret[p] = [kind |-> "HTTPException", status_code |-> 400,
                    missing |-> <<"ip", "ts">>]
       /\ db # {}

-----------------------------------------------------------------------------
(* Property of the Wazuh integration script, checked under SpecWazuh *)

\* stdin held nothing or no JSON
NoAlert == stdin.kind \in {"empty", "blank", "invalid"}

\* the alert has a user, an ip and a timestamp where main() looks for them
AllFieldsGiven ==
    /\ stdin.kind = "object"
    /\ stdin.alert["data.user"] = "\"alice\"" \/ stdin.alert["user"] = "\"bob\""
    /\ stdin.alert["data.srcip"] = "\"ip_casablanca\""
    /\ stdin.alert["data.timestamp"] \in {"\"ts_10_Z\"", "true"}

\* the API answered 200 with a body that is valid JSON
ApiReturnedJson == response.kind = "ok" /\ response.body.json # "invalid"

\* the result of the API is an object whose impossible_travel_detected is
\* true
ResultSaysDetected ==
    /\ response.kind = "ok"
    /\ response.body.json = "object"
    /\ "impossible_travel_detected" \in DOMAIN response.body.object
    /\ response.body.object["impossible_travel_detected"] = "true"

\* C32: the run of main().  The API is called only with user, ip and
\* timestamp all extracted: empty or invalid input ends in exit 2, a
\* missing field in exit 3, both without a request.  A message goes to the
\* queue socket only when the result has impossible_travel_detected true.
\* Once the API returned valid JSON, the verdict is printed and the exit
\* status is 0, whether or not the queue socket took the message.
C32_IntegrationRun ==
    main_pc # "start" =>
       /\ NoAlert => (exit_code = <<2>> /\ request = NoRequest)
       /\ (~NoAlert /\ ~AllFieldsGiven) => (exit_code = <<3>> /\ request = NoRequest)
       /\ request # NoRequest => AllFieldsGiven
       /\ (main_pc = "sendto" \/ queue # <<>>) => ResultSaysDetected
       /\ (main_pc = "done" /\ ApiReturnedJson) =>
             (exit_code = <<0>> /\ stdout # <<>>)

====
